---- MODULE Spec2Model ----
(***************************************************************************)
(* Model of the telekommie git update hook (src/telekommie): the shell and *)
(* git access objects (environment overlay, process execution), the ref    *)
(* and commit views, and the Hooks.update policy.                          *)
(*                                                                         *)
(* Python strings that the code slices, splits, trims or compares are      *)
(* sequences of one-character strings.  Environment keys and values, and   *)
(* the fixed words of a command line, are plain strings.  An optional      *)
(* value (Python None or a value) is a sequence of length 0 or 1.          *)
(*                                                                         *)
(* The external tool is a black box: every spawned process answers with a  *)
(* nondeterministic output text and exit status.  A program is spawnable   *)
(* when its name is in Installed; git is assumed to be installed.          *)
(***************************************************************************)
EXTENDS Integers, Sequences, FiniteSets, TLC

\* ------------------------------------------------------------------ bounds
MaxTail == 1
MaxSetEnv == 2

\* --------------------------------------------------------- option values
None == <<>>
Some(x) == <<x>>

\* ------------------------------------------------------- string literals
RefsHeads == <<"r", "e", "f", "s", "/", "h", "e", "a", "d", "s", "/">>
MasterName == <<"r", "e", "f", "s", "/", "h", "e", "a", "d", "s", "/", "m", "a", "s", "t", "e", "r">>
BranchPrefixLen == 11
SentinelLen == 40

Rep(c, n) == [i \in 1..n |-> c]

SentinelHash == Rep("0", SentinelLen)

\* ----------------------------------------------------- Python str methods
Whitespace == {" ", "\n", "\t"}

Min(a, b) == IF a < b THEN a ELSE b

\* s[:n]
Slice(s, n) == SubSeq(s, 1, Min(n, Len(s)))

\* s.strip()
Strip(s) ==
    IF \A i \in 1..Len(s) : s[i] \in Whitespace
    THEN <<>>
    ELSE LET f == CHOOSE i \in 1..Len(s) :
                      s[i] \notin Whitespace /\ \A j \in 1..(i-1) : s[j] \in Whitespace
             l == CHOOSE i \in 1..Len(s) :
                      s[i] \notin Whitespace /\ \A j \in (i+1)..Len(s) : s[j] \in Whitespace
         IN  SubSeq(s, f, l)

\* s.split("\n")[0]
FirstLine(s) ==
    IF \E i \in 1..Len(s) : s[i] = "\n"
    THEN LET n == CHOOSE i \in 1..Len(s) :
                      s[i] = "\n" /\ \A j \in 1..(i-1) : s[j] # "\n"
         IN  SubSeq(s, 1, n-1)
    ELSE s

\* ------------------------------------------------------------ input sets
RefPrefixes ==
    { RefsHeads,
      <<"r", "e", "f", "s", "/", "h", "e", "a", "d", "/">>,
      <<"r", "e", "f", "s", "/", "t", "a", "g", "s", "/">>,
      <<"R", "e", "f", "s", "/", "h", "e", "a", "d", "s", "/">>,
      <<"r", "e", "f", "s", "/", "h", "e", "a", "d", "s">>,
      <<"h", "e", "a", "d", "s", "/">>,
      <<"t", "a", "g", "s", "/">>,
      <<>> }

RefStems == { <<"m", "a", "s", "t", "e", "r">>, <<"i", "n", "i", "t">>, <<>> }

Tails == UNION { [1..n -> {"x"}] : n \in 0..MaxTail }

RefNames == { p \o s \o t : p \in RefPrefixes, s \in RefStems, t \in Tails }

NewHashes == { Rep("F", SentinelLen) }

OldHashes == { SentinelHash, Rep("0", SentinelLen - 1), Rep("A", SentinelLen) }

\* the old hashes of the sentinel test: all-zero strings of other lengths
ZeroLengths == {0, SentinelLen + 1, 64}
AllOldHashes == OldHashes \cup { Rep("0", n) : n \in ZeroLengths }

\* the refs, paths and tag names handed to the ref and commit views
ViewRefs == { RefsHeads \o <<"i", "n", "i", "t">>, MasterName }
Paths == { <<"p">>, <<"d", "/", "p">> }
TagNames == {"test"}

\* what a spawned process does: its standard output and its exit status
GitBehaviours ==
    { [out |-> <<"D">>,                        err |-> <<>>,    code |-> 0],
      [out |-> <<"\n", "D", "\n", "x", "\n">>, err |-> <<>>,    code |-> 0],
      [out |-> <<"D", " ", "\n", "x">>,        err |-> <<>>,    code |-> 0],
      [out |-> <<"M", "\n">>,                  err |-> <<>>,    code |-> 0],
      [out |-> <<>>,                           err |-> <<"E">>, code |-> 1] }

\* a show process may also print nothing but a line end
ShowBehaviours ==
    GitBehaviours \cup { [out |-> <<"\n">>, err |-> <<>>, code |-> 0] }

LsTreeBehaviours ==
    { [out |-> <<"p", "\n">>,           err |-> <<>>,    code |-> 0],
      [out |-> <<"d", "/", "p", "\n">>, err |-> <<>>,    code |-> 0],
      [out |-> <<"p", "2", "\n">>,      err |-> <<>>,    code |-> 0],
      [out |-> <<"p", "\n", "q", "\n">>, err |-> <<>>,  code |-> 0],
      [out |-> <<>>,                    err |-> <<>>,    code |-> 0],
      [out |-> <<>>,                    err |-> <<"E">>, code |-> 128] }

ShellBehaviours ==
    { [out |-> <<"T", "\n">>,  err |-> <<>>,    code |-> 0],
      [out |-> <<" ", "T">>,   err |-> <<"E">>, code |-> 0],
      [out |-> <<"M", "\n">>,  err |-> <<"E">>, code |-> 1],
      [out |-> <<>>,           err |-> <<"E">>, code |-> 2] }

Commands ==
    { <<"echo", "TESTING">>, <<"which", "NOSUCHCOMMAND">>, <<"NOSUCHCOMMAND">> }

Installed == {"git", "echo", "which"}

EnvKeys == {"EDITOR", "TEST"}
EnvValues == {"", "TESTING"}
GitDirs == {"", "/dev/null"}

\* os.environ as the process finds it
Ambient == ("PATH" :> "/bin") @@ ("EDITOR" :> "vi")

\* the access objects a caller holds; NewSession is the GitAccessObject()
\* that Hooks.update constructs when it is given none
SessionIds == {"s1", "s2"}
NewSession == "new"

\* -------------------------------------------------------------- exceptions
Exc(kind, ref, name, command, err, code) ==
    [kind |-> kind, refName |-> ref, committerName |-> name,
     command |-> command, err |-> err, code |-> code]

NoExc == Exc("none", <<>>, <<>>, <<>>, None, 0)
Accepted == Exc("Accepted", <<>>, <<>>, <<>>, None, 0)
RefDisallowed(ref) == Exc("RefDisallowed", ref, <<>>, <<>>, None, 0)
CommitterMismatch(name) == Exc("CommitterMismatch", <<>>, name, <<>>, None, 0)
CommandFailed(command, err, code) == Exc("CommandFailed", <<>>, <<>>, command, err, code)
OSError == Exc("OSError", <<>>, <<>>, <<>>, None, 0)
AttributeError == Exc("AttributeError", <<>>, <<>>, <<>>, None, 0)

Raise(e) == [exc |-> e, ret |-> <<>>]
Return(v) == [exc |-> NoExc, ret |-> v]

\* ------------------------------------------------------ process execution
\* str(command) of a list of plain strings: ['a', 'b']
PyStr(command) ==
    LET n == Len(command)
    IN  [i \in 1..(4*n + 1) |->
            IF i = 1 THEN "["
            ELSE LET k == (i - 2) \div 4 + 1
                     r == (i - 2) % 4
                 IN  IF r = 1 THEN command[k]
                     ELSE IF r = 3 THEN (IF k = n THEN "]" ELSE ", ")
                     ELSE "'"]

\* faulty variant: the env= argument is left out of the call
Popen_inherit(command, env, beh) ==
    [spawned |-> command[1] \in Installed, env |-> None,
     returncode |-> None, stderr |-> None, beh |-> beh]

\* Popen(command, env=env, ...): the child is started, not waited for
Popen(command, env, beh) ==
    [spawned |-> command[1] \in Installed, env |-> env,
     returncode |-> None, stderr |-> None, beh |-> beh]

\* sub.communicate(): waits for the child; stderr is part of the captured
\* stream only when it was redirected into stdout
Communicate(sub, merged) ==
    [stdout |-> IF merged THEN sub.beh.out \o sub.beh.err ELSE sub.beh.out,
     returncode |-> Some(sub.beh.code)]

\* truth value of sub.returncode
Truthy(rc) == rc # None /\ rc[1] # 0

\* ShellAccessObject.access
ShellAccess(command, env, beh) ==
    LET sub == Popen(command, env, beh)
        done == Communicate(sub, TRUE)
        response == Strip(done.stdout)
    IN  IF ~sub.spawned THEN Raise(OSError)
        ELSE IF Truthy(done.returncode)
             THEN Raise(CommandFailed(PyStr(command), sub.stderr, done.returncode[1]))
             ELSE Return(response)

\* faulty variant: the status is read after the child is waited for, and
\* the missing name self.CommandError is then looked up
GitAccess_waited(command, env, beh) ==
    LET sub == Popen(command, env, beh)
        done == Communicate(sub, FALSE)
    IN  IF ~sub.spawned THEN Raise(OSError)
        ELSE IF Truthy(done.returncode)
             THEN Raise(AttributeError)
             ELSE Return(Strip(done.stdout))

\* GitAccessObject.access: returncode is read before the child is waited for
GitAccess(command, env, beh) ==
    LET sub == Popen(command, env, beh)
    IN  IF ~sub.spawned THEN Raise(OSError)
        ELSE IF Truthy(sub.returncode)
             THEN Raise(AttributeError)
             ELSE Return(Strip(Communicate(sub, FALSE).stdout))

\* --------------------------------------------------- environment overlay
Put(map, key, value) ==
    [k \in DOMAIN map \cup {key} |-> IF k = key THEN value ELSE map[k]]

\* faulty variant: os.environ is copied again on every call
setEnv_recopied(env, environ, key, value) ==
    [env |-> Some(Put(environ, key, value)), environ |-> environ]

\* setEnv: the new self.env and os.environ after the call
setEnv(env, environ, key, value) ==
    LET base == IF None = env THEN environ ELSE env[1]
    IN  [env |-> Some(Put(base, key, value)), environ |-> environ]

\* ------------------------------------------------------------------ GitRef
\* faulty variant: the prefix is compared without its final slash
isBranch_tenChars(ref) ==
    IF SubSeq(RefsHeads, 1, BranchPrefixLen - 1) = Slice(ref, BranchPrefixLen - 1)
    THEN TRUE ELSE FALSE

isBranch(ref) ==
    IF RefsHeads = Slice(ref, BranchPrefixLen) THEN TRUE ELSE FALSE

\* faulty variant: a prefix comparison instead of equality
isMaster_prefix(ref) ==
    IF MasterName = Slice(ref, Len(MasterName)) THEN TRUE ELSE FALSE

isMaster(ref) ==
    IF MasterName = ref THEN TRUE ELSE FALSE

\* the command of GitRef.hash
showRefCommand(ref) == <<"git", "show-ref", "-s", ref>>

\* GitRef.hash
hash(ref, env, beh) == GitAccess(showRefCommand(ref), env, beh)

\* GitCommit(accessObject, hash)
GitCommit(git, h) == [git |-> git, commitHash |-> h]

\* faulty variant: only the first line of the output is taken as the hash
getCommit_firstLine(git, ref, env, beh) ==
    LET r == hash(ref, env, beh)
    IN  IF r.exc.kind # "none"
        THEN [exc |-> r.exc, commit |-> GitCommit(git, <<>>)]
        ELSE [exc |-> NoExc, commit |-> GitCommit(git, FirstLine(r.ret))]

\* GitRef.getCommit: GitCommit(self.git, self.hash())
getCommit(git, ref, env, beh) ==
    LET r == hash(ref, env, beh)
    IN  IF r.exc.kind # "none"
        THEN [exc |-> r.exc, commit |-> GitCommit(git, <<>>)]
        ELSE [exc |-> NoExc, commit |-> GitCommit(git, r.ret)]

\* --------------------------------------------------------------- GitCommit
\* the command of GitCommit.committerName
showCommand(h) == <<"git", "show", "--pretty=format:%cn", h>>

\* faulty variant: the output is returned whole
committerName_whole(info) == info

\* GitCommit.committerName, given what access returned
committerName(info) == FirstLine(info)

\* the command of GitCommit.pathExists
lsTreeCommand(h, path) == <<"git", "ls-tree", "--name-only", h, path>>

\* faulty variant: the output only has to begin with the path
pathExists_prefix(pathTest, path) ==
    IF Slice(pathTest, Len(path)) = path THEN TRUE ELSE FALSE

\* GitCommit.pathExists, given what access returned
pathExists(pathTest, path) ==
    IF pathTest = path THEN TRUE ELSE FALSE

\* the command of GitCommit.tag
tagCommand(tagName, h) == <<"git", "tag", tagName, h>>

\* faulty variant: the overlay is put back once the command is done
tag_restoring(env, environ, tagName, h, beh) ==
    LET e == setEnv(env, environ, "EDITOR", "")
        r == GitAccess(tagCommand(tagName, h), e.env, beh)
    IN  [env |-> env, environ |-> e.environ, spawnEnv |-> e.env,
         result |-> IF r.exc.kind # "none" THEN r ELSE Return(<<>>)]

\* GitCommit.tag: self.env and os.environ after the call, the environment
\* argument of its process, and its result (None unless access raises)
tag(env, environ, tagName, h, beh) ==
    LET e == setEnv(env, environ, "EDITOR", "")
        r == GitAccess(tagCommand(tagName, h), e.env, beh)
    IN  [env |-> e.env, environ |-> e.environ, spawnEnv |-> e.env,
         result |-> IF r.exc.kind # "none" THEN r ELSE Return(<<>>)]

\* ------------------------------------------------------------------- Hooks
\* faulty variant: "and" for "or"
refDisallowed_conjunctive(ref) == isMaster(ref) /\ ~isBranch(ref)

\* the condition of line 51
refDisallowed(ref) == isMaster(ref) \/ ~isBranch(ref)

\* faulty variant: every all-zero string counts as the sentinel
isExistingBranch_anyZeros(old) == \E i \in 1..Len(old) : old[i] # "0"

\* faulty variant: the comparison is inverted
isExistingBranch_inverted(old) == old = SentinelHash

\* the condition of line 54
isExistingBranch(old) == old # SentinelHash

\* faulty variant: the exception carries the head's committer name
haveMatchingCommitterNames_headName(headName, updateCommitter) ==
    IF headName # updateCommitter
    THEN CommitterMismatch(headName)
    ELSE Accepted

\* faulty variant: the names are trimmed before they are compared
haveMatchingCommitterNames_trimmed(headName, updateCommitter) ==
    IF Strip(headName) # Strip(updateCommitter)
    THEN CommitterMismatch(updateCommitter)
    ELSE Accepted

\* Hooks.haveMatchingCommitterNames, given the two names read; Accepted
\* stands for returning without raising
haveMatchingCommitterNames(headName, updateCommitter) ==
    IF headName # updateCommitter
    THEN CommitterMismatch(updateCommitter)
    ELSE Accepted

\* ---------------------------------------------------------------- state
VARIABLES
    environ,          \* os.environ
    sessions,         \* the access objects: kind and self.env
    nSetEnv,          \* number of setEnv calls made so far
    firstEnviron,     \* per session: os.environ at its first setEnv call
    lastSet,          \* per session: the latest value set for each key
    pc,               \* position of the running Hooks.update call
    refName, oldHash, newHash, accessObject,   \* its arguments
    head,             \* hash of the commit branch.getCommit() returned
    updateCommitter,  \* local of haveMatchingCommitterNames
    outcome,          \* how the call ended
    phases,           \* the stages the call has completed
    log,              \* the processes spawned by the running operation
    last              \* the latest completed operation of a view or session

vars == <<environ, sessions, nSetEnv, firstEnviron, lastSet, pc, refName,
          oldHash, newHash, accessObject, head, updateCommitter, outcome,
          phases, log, last>>

sessionVars == <<environ, sessions, nSetEnv, firstEnviron, lastSet>>
callVars == <<pc, refName, oldHash, newHash, accessObject, head,
              updateCommitter, outcome, phases>>

NoOp == [op |-> "none", session |-> NewSession, arg |-> <<>>, key |-> "", value |-> "",
         truth |-> FALSE, result |-> Return(<<>>)]

Op(op, s, arg, key, value, truth, result) ==
    [op |-> op, session |-> s, arg |-> arg, key |-> key, value |-> value,
     truth |-> truth, result |-> result]

NoSession == [kind |-> "none", env |-> None]

\* self.env of the session a call runs on
EnvOf(s) == IF s = NewSession THEN None ELSE sessions[s].env

\* a started process: its command line, the env= argument it was started
\* with, the environment it runs in (os.environ when env is None) and what
\* it does
Spawned(command, env, beh) ==
    LET sub == Popen(command, env, beh)
    IN  [command |-> command, env |-> sub.env,
         environment |-> IF sub.env = None THEN environ ELSE sub.env[1],
         beh |-> beh]

NoCall ==
    /\ pc' = "idle"
    /\ refName' = <<>> /\ oldHash' = <<>> /\ newHash' = <<>>
    /\ accessObject' = NewSession
    /\ head' = None /\ updateCommitter' = None
    /\ outcome' = NoExc
    /\ phases' = <<>>

Init ==
    /\ environ = Ambient
    /\ sessions = [s \in SessionIds |-> NoSession]
    /\ nSetEnv = 0
    /\ firstEnviron = [s \in SessionIds |-> None]
    /\ lastSet = [s \in SessionIds |-> <<>>]
    /\ pc = "idle"
    /\ refName = <<>> /\ oldHash = <<>> /\ newHash = <<>>
    /\ accessObject = NewSession
    /\ head = None /\ updateCommitter = None
    /\ outcome = NoExc
    /\ phases = <<>>
    /\ log = <<>>
    /\ last = NoOp

\* ------------------------------------------------------ session operations
\* faulty variant: env is one attribute of the class, shared by all objects
DoSetEnv_shared(s, kind, key, value) ==
    LET r == setEnv(sessions[s].env, environ, key, value)
    IN  /\ sessions' = [t \in SessionIds |->
                            IF t = s THEN [kind |-> kind, env |-> r.env]
                            ELSE IF sessions[t].kind = "none" THEN sessions[t]
                            ELSE [kind |-> sessions[t].kind, env |-> r.env]]
        /\ environ' = r.environ
        /\ nSetEnv' = nSetEnv + 1
        /\ firstEnviron' = [firstEnviron EXCEPT
                               ![s] = IF @ = None THEN Some(environ) ELSE @]
        /\ lastSet' = [lastSet EXCEPT ![s] = Put(@, key, value)]

\* the effect of one setEnv call on session s of the given kind
DoSetEnv(s, kind, key, value) ==
    LET r == setEnv(sessions[s].env, environ, key, value)
    IN  /\ sessions' = [sessions EXCEPT ![s] = [kind |-> kind, env |-> r.env]]
        /\ environ' = r.environ
        /\ nSetEnv' = nSetEnv + 1
        /\ firstEnviron' = [firstEnviron EXCEPT
                               ![s] = IF @ = None THEN Some(environ) ELSE @]
        /\ lastSet' = [lastSet EXCEPT ![s] = Put(@, key, value)]

\* ShellAccessObject()
NewShellAccessObject(s) ==
    /\ pc = "idle"
    /\ sessions[s].kind = "none"
    /\ sessions' = [sessions EXCEPT ![s] = [kind |-> "shell", env |-> None]]
    /\ last' = Op("ShellAccessObject", s, <<>>, "", "", FALSE, Return(<<>>))
    /\ log' = <<>>
    /\ NoCall
    /\ UNCHANGED <<environ, nSetEnv, firstEnviron, lastSet>>

\* GitAccessObject(gitDir)
NewGitAccessObject(s, gitDir) ==
    /\ pc = "idle"
    /\ sessions[s].kind = "none"
    /\ IF gitDir # None /\ gitDir[1] # ""
       THEN /\ nSetEnv < MaxSetEnv
            /\ DoSetEnv(s, "git", "GIT_DIR", gitDir[1])
       ELSE /\ sessions' = [sessions EXCEPT ![s] = [kind |-> "git", env |-> None]]
            /\ UNCHANGED <<environ, nSetEnv, firstEnviron, lastSet>>
    /\ last' = Op("GitAccessObject", s, <<>>, "GIT_DIR",
                  IF gitDir = None THEN "" ELSE gitDir[1], gitDir # None,
                  Return(<<>>))
    /\ log' = <<>>
    /\ NoCall

\* session.setEnv(key, value)
SetEnv(s, key, value) ==
    /\ pc = "idle"
    /\ sessions[s].kind # "none"
    /\ nSetEnv < MaxSetEnv
    /\ DoSetEnv(s, sessions[s].kind, key, value)
    /\ last' = Op("setEnv", s, <<>>, key, value, FALSE, Return(<<>>))
    /\ log' = <<>>
    /\ NoCall

\* the host program changes os.environ (once, to keep the model finite)
ChangeEnviron(key) ==
    /\ pc = "idle"
    /\ environ = Ambient
    /\ environ' = Put(environ, key, "changed")
    /\ last' = NoOp
    /\ log' = <<>>
    /\ NoCall
    /\ UNCHANGED <<sessions, nSetEnv, firstEnviron, lastSet>>

\* session.access(command)
Access(s, command, beh) ==
    /\ pc = "idle"
    /\ sessions[s].kind # "none"
    /\ LET env == sessions[s].env
           r == IF sessions[s].kind = "shell"
                THEN ShellAccess(command, env, beh)
                ELSE GitAccess(command, env, beh)
       IN  /\ last' = Op("access", s, <<>>, "", "", FALSE, r)
           /\ log' = <<Spawned(command, env, beh)>>
    /\ NoCall
    /\ UNCHANGED sessionVars

\* ----------------------------------------------------------- ref queries
\* GitRef(git, ref).isBranch()
IsBranch(ref) ==
    /\ pc = "idle"
    /\ last' = Op("isBranch", NewSession, ref, "", "", isBranch(ref), Return(<<>>))
    /\ log' = <<>>
    /\ NoCall
    /\ UNCHANGED sessionVars

\* GitRef(git, ref).isMaster()
IsMaster(ref) ==
    /\ pc = "idle"
    /\ last' = Op("isMaster", NewSession, ref, "", "", isMaster(ref), Return(<<>>))
    /\ log' = <<>>
    /\ NoCall
    /\ UNCHANGED sessionVars

\* GitRef(git, ref).hash() on session s
Hash(s, ref, beh) ==
    /\ pc = "idle"
    /\ sessions[s].kind = "git"
    /\ LET env == sessions[s].env
       IN  /\ last' = Op("hash", s, ref, "", "", FALSE, hash(ref, env, beh))
           /\ log' = <<Spawned(showRefCommand(ref), env, beh)>>
    /\ NoCall
    /\ UNCHANGED sessionVars

\* GitRef(git, ref).getCommit() on session s; key records the session of
\* the commit that is returned
GetCommit(s, ref, beh) ==
    /\ pc = "idle"
    /\ sessions[s].kind = "git"
    /\ LET env == sessions[s].env
           r == getCommit(s, ref, env, beh)
       IN  /\ last' = Op("getCommit", s, ref, r.commit.git, "", FALSE,
                         IF r.exc.kind # "none" THEN Raise(r.exc)
                         ELSE Return(r.commit.commitHash))
           /\ log' = <<Spawned(showRefCommand(ref), env, beh)>>
    /\ NoCall
    /\ UNCHANGED sessionVars

\* -------------------------------------------------------- commit queries
\* GitCommit(git, h).committerName() on session s
CommitterName(s, h, beh) ==
    /\ pc = "idle"
    /\ sessions[s].kind = "git"
    /\ LET env == sessions[s].env
           command == showCommand(h)
           r == GitAccess(command, env, beh)
       IN  /\ last' = Op("committerName", s, h, "", "", FALSE,
                         IF r.exc.kind # "none" THEN r
                         ELSE Return(committerName(r.ret)))
           /\ log' = <<Spawned(command, env, beh)>>
    /\ NoCall
    /\ UNCHANGED sessionVars

\* GitCommit(git, h).pathExists(path) on session s
PathExists(s, h, path, beh) ==
    /\ pc = "idle"
    /\ sessions[s].kind = "git"
    /\ LET env == sessions[s].env
           command == lsTreeCommand(h, path)
           r == GitAccess(command, env, beh)
       IN  /\ last' = Op("pathExists", s, path, "", "",
                         r.exc.kind = "none" /\ pathExists(r.ret, path),
                         IF r.exc.kind # "none" THEN r ELSE Return(<<>>))
           /\ log' = <<Spawned(command, env, beh)>>
    /\ NoCall
    /\ UNCHANGED sessionVars

\* GitCommit(git, h).tag(tagName) on session s
Tag(s, h, tagName, beh) ==
    /\ pc = "idle"
    /\ sessions[s].kind = "git"
    /\ nSetEnv < MaxSetEnv
    /\ LET t == tag(sessions[s].env, environ, tagName, h, beh)
       IN  /\ sessions' = [sessions EXCEPT ![s] = [kind |-> "git", env |-> t.env]]
           /\ environ' = t.environ
           /\ last' = Op("tag", s, h, tagName, "", FALSE, t.result)
           /\ log' = <<Spawned(tagCommand(tagName, h), t.spawnEnv, beh)>>
    /\ nSetEnv' = nSetEnv + 1
    /\ firstEnviron' = [firstEnviron EXCEPT
                           ![s] = IF @ = None THEN Some(environ) ELSE @]
    /\ lastSet' = [lastSet EXCEPT ![s] = Put(@, "EDITOR", "")]
    /\ NoCall

\* ------------------------------------------------------------ Hooks.update
\* Hooks.update(ref, old, new, s) is called
Update(ref, old, new, s) ==
    /\ pc = "idle"
    /\ s = NewSession \/ (s \in SessionIds /\ sessions[s].kind = "git")
    /\ pc' = "Start"
    /\ refName' = ref /\ oldHash' = old /\ newHash' = new
    /\ accessObject' = s
    /\ head' = None /\ updateCommitter' = None
    /\ outcome' = NoExc
    /\ phases' = <<>>
    /\ log' = <<>>
    /\ last' = NoOp
    /\ UNCHANGED sessionVars

\* faulty variant: the head is resolved before the ref is classified
Classify_headFirst ==
    /\ pc = "Start"
    /\ \E beh \in GitBehaviours :
           log' = Append(log, Spawned(showRefCommand(refName), EnvOf(accessObject), beh))
    /\ IF refDisallowed(refName)
       THEN /\ outcome' = RefDisallowed(refName)
            /\ phases' = phases \o <<"RefClassified", "Decided">>
            /\ pc' = "Decided"
       ELSE /\ outcome' = outcome
            /\ phases' = Append(phases, "RefClassified")
            /\ pc' = "RefClassified"
    /\ UNCHANGED <<refName, oldHash, newHash, accessObject, head,
                   updateCommitter, last>>
    /\ UNCHANGED sessionVars

\* branch = accessObject.getRef(refName);
\* if branch.isMaster() or not branch.isBranch(): raise RefDisallowed(refName)
Classify ==
    /\ pc = "Start"
    /\ IF refDisallowed(refName)
       THEN /\ outcome' = RefDisallowed(refName)
            /\ phases' = phases \o <<"RefClassified", "Decided">>
            /\ pc' = "Decided"
       ELSE /\ outcome' = outcome
            /\ phases' = Append(phases, "RefClassified")
            /\ pc' = "RefClassified"
    /\ UNCHANGED <<refName, oldHash, newHash, accessObject, head,
                   updateCommitter, log, last>>
    /\ UNCHANGED sessionVars

\* head = branch.getCommit(): GitCommit(git, self.hash()), one show-ref
ResolveHead(beh) ==
    /\ pc = "RefClassified"
    /\ LET command == showRefCommand(refName)
           env == EnvOf(accessObject)
           r == GitAccess(command, env, beh)
       IN  /\ log' = Append(log, Spawned(command, env, beh))
           /\ IF r.exc.kind # "none"
              THEN /\ outcome' = r.exc
                   /\ head' = head
                   /\ phases' = Append(phases, "Decided")
                   /\ pc' = "Decided"
              ELSE /\ outcome' = outcome
                   /\ head' = Some(r.ret)
                   /\ phases' = Append(phases, "HeadResolved")
                   /\ pc' = "HeadResolved"
    /\ UNCHANGED <<refName, oldHash, newHash, accessObject, updateCommitter, last>>
    /\ UNCHANGED sessionVars

\* oldHash is "0" * 40: nothing more to check, update returns
AcceptNewBranch ==
    /\ pc = "HeadResolved"
    /\ ~isExistingBranch(oldHash)
    /\ outcome' = Accepted
    /\ phases' = Append(phases, "Decided")
    /\ pc' = "Decided"
    /\ UNCHANGED <<refName, oldHash, newHash, accessObject, head,
                   updateCommitter, log, last>>
    /\ UNCHANGED sessionVars

\* faulty variant: the head's committer is read where the update's should be
NameUpdateCommitter_headFirst(beh) ==
    /\ pc = "HeadResolved"
    /\ isExistingBranch(oldHash)
    /\ LET command == showCommand(head[1])
           env == EnvOf(accessObject)
           r == GitAccess(command, env, beh)
       IN  /\ log' = Append(log, Spawned(command, env, beh))
           /\ IF r.exc.kind # "none"
              THEN /\ outcome' = r.exc
                   /\ updateCommitter' = updateCommitter
                   /\ phases' = Append(phases, "Decided")
                   /\ pc' = "Decided"
              ELSE /\ outcome' = outcome
                   /\ updateCommitter' = Some(committerName(r.ret))
                   /\ phases' = phases
                   /\ pc' = "UpdateNamed"
    /\ UNCHANGED <<refName, oldHash, newHash, accessObject, head, last>>
    /\ UNCHANGED sessionVars

\* update = accessObject.getCommit(newHash);
\* updateCommitter = update.committerName()
NameUpdateCommitter(beh) ==
    /\ pc = "HeadResolved"
    /\ isExistingBranch(oldHash)
    /\ LET command == showCommand(newHash)
           env == EnvOf(accessObject)
           r == GitAccess(command, env, beh)
       IN  /\ log' = Append(log, Spawned(command, env, beh))
           /\ IF r.exc.kind # "none"
              THEN /\ outcome' = r.exc
                   /\ updateCommitter' = updateCommitter
                   /\ phases' = Append(phases, "Decided")
                   /\ pc' = "Decided"
              ELSE /\ outcome' = outcome
                   /\ updateCommitter' = Some(committerName(r.ret))
                   /\ phases' = phases
                   /\ pc' = "UpdateNamed"
    /\ UNCHANGED <<refName, oldHash, newHash, accessObject, head, last>>
    /\ UNCHANGED sessionVars

\* if head.committerName() != updateCommitter: raise CommitterMismatch
CompareCommitters(beh) ==
    /\ pc = "UpdateNamed"
    /\ LET command == showCommand(head[1])
           env == EnvOf(accessObject)
           r == GitAccess(command, env, beh)
       IN  /\ log' = Append(log, Spawned(command, env, beh))
           /\ outcome' = IF r.exc.kind # "none"
                         THEN r.exc
                         ELSE haveMatchingCommitterNames(committerName(r.ret),
                                                         updateCommitter[1])
    /\ phases' = Append(phases, "Decided")
    /\ pc' = "Decided"
    /\ UNCHANGED <<refName, oldHash, newHash, accessObject, head,
                   updateCommitter, last>>
    /\ UNCHANGED sessionVars

\* the call is over: its result has reached the caller
Finish ==
    /\ pc = "Decided"
    /\ NoCall
    /\ log' = <<>>
    /\ last' = NoOp
    /\ UNCHANGED sessionVars

GitDirArgs == {None} \cup {Some(g) : g \in GitDirs}

\* the hook: git sessions, ref classification and Hooks.update
Next ==
    \/ \E s \in SessionIds, d \in GitDirArgs : NewGitAccessObject(s, d)
    \/ \E r \in RefNames : IsBranch(r)
    \/ \E r \in RefNames : IsMaster(r)
    \/ \E r \in RefNames, o \in OldHashes, n \in NewHashes,
          s \in SessionIds \cup {NewSession} : Update(r, o, n, s)
    \/ Classify
    \/ \E b \in GitBehaviours : ResolveHead(b)
    \/ AcceptNewBranch
    \/ \E b \in GitBehaviours : NameUpdateCommitter(b)
    \/ \E b \in GitBehaviours : CompareCommitters(b)
    \/ Finish

Spec == Init /\ [][Next]_vars

\* the sessions: construction, setEnv and access
NextEnv ==
    \/ \E s \in SessionIds : NewShellAccessObject(s)
    \/ \E s \in SessionIds, d \in GitDirArgs : NewGitAccessObject(s, d)
    \/ \E s \in SessionIds, k \in EnvKeys, v \in EnvValues : SetEnv(s, k, v)
    \/ \E s \in SessionIds, c \in Commands, b \in ShellBehaviours : Access(s, c, b)
    \/ \E k \in {"PATH", "TEST"} : ChangeEnviron(k)

SpecEnv == Init /\ [][NextEnv]_vars

\* the ref and commit views of shared git sessions, and Hooks.update run
\* on those sessions
NextViews ==
    \/ \E s \in SessionIds, d \in GitDirArgs : NewGitAccessObject(s, d)
    \/ \E r \in ViewRefs : IsBranch(r)
    \/ \E r \in ViewRefs : IsMaster(r)
    \/ \E s \in SessionIds, r \in ViewRefs, b \in GitBehaviours : Hash(s, r, b)
    \/ \E s \in SessionIds, r \in ViewRefs, b \in GitBehaviours : GetCommit(s, r, b)
    \/ \E s \in SessionIds, h \in NewHashes, b \in ShowBehaviours :
          CommitterName(s, h, b)
    \/ \E s \in SessionIds, h \in NewHashes, p \in Paths, b \in LsTreeBehaviours :
          PathExists(s, h, p, b)
    \/ \E s \in SessionIds, h \in NewHashes, t \in TagNames, b \in GitBehaviours :
          Tag(s, h, t, b)
    \/ \E r \in ViewRefs, o \in OldHashes, n \in NewHashes, s \in SessionIds :
          Update(r, o, n, s)
    \/ Classify
    \/ \E b \in GitBehaviours : ResolveHead(b)
    \/ AcceptNewBranch
    \/ \E b \in GitBehaviours : NameUpdateCommitter(b)
    \/ \E b \in GitBehaviours : CompareCommitters(b)
    \/ Finish

SpecViews == Init /\ [][NextViews]_vars

\* Hooks.update on its own session, over the wider set of old hashes
NextSentinel ==
    \/ \E r \in ViewRefs, o \in AllOldHashes, n \in NewHashes :
          Update(r, o, n, NewSession)
    \/ Classify
    \/ \E b \in GitBehaviours : ResolveHead(b)
    \/ AcceptNewBranch
    \/ \E b \in GitBehaviours : NameUpdateCommitter(b)
    \/ \E b \in GitBehaviours : CompareCommitters(b)
    \/ Finish

SpecSentinel == Init /\ [][NextSentinel]_vars

\* ------------------------------------------------------------- properties
\* helpers of the properties below
StartsWithRefsHeads(ref) ==
    /\ Len(ref) >= 11
    /\ \A i \in 1..11 : ref[i] = RefsHeads[i]

IsPrimary(ref) == ref = RefsHeads \o <<"m", "a", "s", "t", "e", "r">>

AllowedRef(ref) == StartsWithRefsHeads(ref) /\ ~IsPrimary(ref)

FortyZeros == [i \in 1..40 |-> "0"]

\* the committer name a show process reports: first line of its trimmed output
ReportedName(p) == FirstLine(Strip(p.beh.out))

Evaluating == pc # "idle"

\* C1: a call of Hooks.update on refs/heads/master, or on a ref name that
\* does not start with refs/heads/, does nothing but raise RefDisallowed
\* carrying that ref name: it is never accepted, never ends in
\* CommitterMismatch, and its raising step is always possible.
C1_RefDisallowed ==
    (Evaluating /\ (IsPrimary(refName) \/ ~StartsWithRefsHeads(refName))) =>
        /\ pc \in {"Start", "Decided"}
        /\ pc = "Start" => (outcome.kind = "none" /\ ENABLED Classify)
        /\ pc = "Decided" =>
              (outcome.kind = "RefDisallowed" /\ outcome.refName = refName)

C1_Witness ==
    /\ pc = "Decided"
    /\ refName = <<"t", "a", "g", "s", "/", "i", "n", "i", "t">>
    /\ outcome.kind = "RefDisallowed"
    /\ outcome.refName = refName

\* C2: with oldHash forty "0" characters and a branch other than master,
\* Hooks.update spawns no show process and its only result is acceptance.
C2_NewBranchAccepted ==
    (Evaluating /\ oldHash = FortyZeros /\ AllowedRef(refName)) =>
        /\ \A i \in 1..Len(log) : log[i].command[2] # "show"
        /\ pc \in {"Start", "RefClassified", "HeadResolved", "Decided"}
        /\ pc = "Decided" => outcome.kind = "Accepted"
        /\ pc # "Decided" => outcome.kind = "none"

C2_Witness ==
    /\ pc = "Decided"
    /\ oldHash = FortyZeros
    /\ AllowedRef(refName)
    /\ outcome.kind = "Accepted"
    /\ Len(log) = 1

\* C3: for a branch other than master and an oldHash that is not the
\* sentinel, a finished Hooks.update has read the committer name of newHash
\* and then that of the head; when the two names differ it has raised
\* CommitterMismatch carrying the name read for newHash.
C3_MismatchCarriesUpdateName ==
    (pc = "Decided" /\ AllowedRef(refName) /\ oldHash # FortyZeros) =>
        /\ Len(log) = 3
        /\ log[2].command = <<"git", "show", "--pretty=format:%cn", newHash>>
        /\ log[3].command = <<"git", "show", "--pretty=format:%cn", head[1]>>
        /\ ReportedName(log[3]) # ReportedName(log[2]) =>
              /\ outcome.kind = "CommitterMismatch"
              /\ outcome.committerName = ReportedName(log[2])

C3_Witness ==
    /\ pc = "Decided"
    /\ AllowedRef(refName)
    /\ oldHash # FortyZeros
    /\ ReportedName(log[2]) = <<"D">>
    /\ ReportedName(log[3]) = <<"M">>
    /\ outcome.kind = "CommitterMismatch"
    /\ outcome.committerName = <<"D">>

\* C4: for a branch other than master and an oldHash that is not the
\* sentinel, Hooks.update accepts exactly when the name read for the head
\* and the name read for newHash are the same string; names that differ
\* only in white space are different.
C4_AcceptedIffSameName ==
    (pc = "Decided" /\ AllowedRef(refName) /\ oldHash # FortyZeros) =>
        (outcome.kind = "Accepted" <=> ReportedName(log[3]) = ReportedName(log[2]))

C4_Witness ==
    /\ pc = "Decided"
    /\ AllowedRef(refName)
    /\ oldHash # FortyZeros
    /\ outcome.kind = "Accepted"
    /\ log[2].beh # log[3].beh
    /\ ReportedName(log[2]) = <<"D">>
    /\ ReportedName(log[3]) = <<"D">>

C6_NonZeroExitAborts ==
    pc = "Decided" =>
        \A i \in 1..Len(log) :
            log[i].beh.code # 0 =>
                (i = Len(log) /\ outcome.kind = "CommandFailed")

\* C7 as stated: access on a command that can be spawned returns the
\* trimmed captured output when the process exits with status 0, and raises
\* CommandFailed carrying the command, the captured error text and the exit
\* status when it exits with another status.
C7_AccessRaisesCommandFailed ==
    (last.op = "access" /\ log[1].command[1] \in Installed) =>
        LET p == log[1]
            captured == IF sessions[last.session].kind = "shell"
                        THEN p.beh.out \o p.beh.err
                        ELSE p.beh.out
        IN  /\ p.beh.code = 0 =>
                  /\ last.result.exc.kind = "none"
                  /\ last.result.ret = Strip(captured)
            /\ p.beh.code # 0 =>
                  /\ last.result.exc.kind = "CommandFailed"
                  /\ last.result.exc.command = PyStr(p.command)
                  /\ last.result.exc.err = Some(p.beh.err)
                  /\ last.result.exc.code = p.beh.code

\* the overlay of every session, in terms of the setEnv calls made on it
OverlayIsSnapshotPlusLatest ==
    \A s \in SessionIds :
        IF firstEnviron[s] = None
        THEN sessions[s].env = None /\ lastSet[s] = <<>>
        ELSE /\ sessions[s].env # None
             /\ LET overlay == sessions[s].env[1]
                    ambient == firstEnviron[s][1]
                IN  /\ DOMAIN overlay = DOMAIN lastSet[s] \cup DOMAIN ambient
                    /\ \A k \in DOMAIN lastSet[s] : overlay[k] = lastSet[s][k]
                    /\ \A k \in DOMAIN ambient \ DOMAIN lastSet[s] :
                          overlay[k] = ambient[k]

\* C8: a session on which setEnv was never called has no overlay; otherwise
\* its overlay maps every key that was set to the value of its latest
\* setEnv call and every other variable of os.environ, as it was at the
\* first call, to its value there; no setEnv call changes os.environ.
C8_OverlayIsSnapshotPlusLatest ==
    /\ []OverlayIsSnapshotPlusLatest
    /\ [][nSetEnv' # nSetEnv => environ' = environ]_vars

C8_Witness ==
    /\ last.op = "setEnv"
    /\ nSetEnv = 2
    /\ DOMAIN lastSet[last.session] = {"GIT_DIR", "EDITOR"}
    /\ sessions[last.session].env[1]["EDITOR"] = ""
    /\ sessions[last.session].env[1]["PATH"] = "/bin"
    /\ environ["PATH"] = "changed"
    /\ environ["EDITOR"] = "vi"

\* C9: isBranch is true of the ref names whose first 11 characters are
\* refs/heads/ and false of every other name.
C9_IsBranchIffPrefix ==
    last.op = "isBranch" => (last.truth <=> StartsWithRefsHeads(last.arg))

C9_Witness ==
    /\ last.op = "isBranch"
    /\ last.arg = <<"h", "e", "a", "d", "s", "/", "m", "a", "s", "t", "e", "r">>
    /\ ~last.truth

\* C10: isMaster is true of refs/heads/master and of no other ref name.
C10_IsMasterIffExact ==
    last.op = "isMaster" => (last.truth <=> IsPrimary(last.arg))

C10_Witness ==
    /\ last.op = "isMaster"
    /\ last.arg = RefsHeads \o <<"m", "a", "s", "t", "e", "r", "x">>
    /\ ~last.truth

\* what access hands back for a git process: its trimmed standard output
Captured(p) == Strip(p.beh.out)

HasLineEnd(t) == \E i \in 1..Len(t) : t[i] = "\n"

\* C11: GitCommit.pathExists(p) returns true exactly when the output
\* captured from the ls-tree command equals p; an output that only contains
\* p (as prefix, suffix or substring), an empty output for a non-empty p
\* and an output of several lines give false.
C11_PathExistsIffExact ==
    last.op = "pathExists" =>
        LET pathTest == Captured(log[1])
        IN  /\ Len(log) = 1
            /\ log[1].command[2] = "ls-tree"
            /\ log[1].command[5] = last.arg
            /\ last.truth <=> (pathTest = last.arg)
            /\ (Len(pathTest) # Len(last.arg)) => ~last.truth
            /\ (pathTest = <<>> /\ last.arg # <<>>) => ~last.truth
            /\ HasLineEnd(pathTest) => ~last.truth

C11_Witness ==
    /\ last.op = "pathExists"
    /\ last.arg = <<"p">>
    /\ Captured(log[1]) = <<"p", "2">>
    /\ ~last.truth

\* C12: GitCommit.committerName returns the first line of the trimmed
\* output of the show command and drops every later line; for an empty
\* output it returns the empty string and does not raise.
C12_CommitterNameIsFirstLine ==
    last.op = "committerName" =>
        LET t == Captured(log[1])
            name == last.result.ret
        IN  /\ Len(log) = 1
            /\ log[1].command = <<"git", "show", "--pretty=format:%cn", last.arg>>
            /\ last.result.exc.kind = "none"
            /\ Len(name) <= Len(t)
            /\ name = SubSeq(t, 1, Len(name))
            /\ ~HasLineEnd(name)
            /\ Len(name) = Len(t) \/ t[Len(name) + 1] = "\n"
            /\ t = <<>> => name = <<>>

C12_Witness ==
    /\ last.op = "committerName"
    /\ log[1].beh.out = <<"\n", "D", "\n", "x", "\n">>
    /\ last.result.ret = <<"D">>

\* C13: on a branch other than master the committer names are compared for
\* every oldHash but the string of exactly 40 zeros (all-zero strings of
\* another length and the empty string included); only for that string
\* does Hooks.update return after resolving the head.
C13_SkippedOnlyForFortyZeros ==
    (Evaluating /\ AllowedRef(refName)) =>
        /\ pc = "HeadResolved" =>
               /\ ENABLED AcceptNewBranch <=> oldHash = FortyZeros
               /\ (\E b \in GitBehaviours : ENABLED NameUpdateCommitter(b))
                      <=> oldHash # FortyZeros
        /\ pc = "UpdateNamed" => oldHash # FortyZeros
        /\ (pc = "Decided" /\ oldHash = FortyZeros) =>
               (Len(log) = 1 /\ outcome = Accepted)
        /\ (pc = "Decided" /\ oldHash # FortyZeros) =>
               /\ Len(log) = 3
               /\ log[2].command = <<"git", "show", "--pretty=format:%cn", newHash>>
               /\ log[3].command = <<"git", "show", "--pretty=format:%cn", head[1]>>
               /\ outcome.kind = IF ReportedName(log[2]) = ReportedName(log[3])
                                 THEN "Accepted" ELSE "CommitterMismatch"

C13_Witness ==
    /\ pc = "Decided"
    /\ AllowedRef(refName)
    /\ oldHash = [i \in 1..64 |-> "0"]
    /\ Len(log) = 3
    /\ outcome.kind = "CommitterMismatch"

\* C14: the process that access() starts is given the session's overlay
\* exactly when a setEnv call (the one of a constructor given a gitDir
\* included) was made on that session before; otherwise it is given no
\* environment and runs in os.environ.
C14_OverlayHandedIffSetEnv ==
    last.op = "access" =>
        LET s == last.session
            p == log[1]
        IN  /\ p.env # None <=> firstEnviron[s] # None
            /\ firstEnviron[s] # None =>
                   (p.env = sessions[s].env /\ p.environment = sessions[s].env[1])
            /\ firstEnviron[s] = None => p.environment = environ

C14_Witness ==
    /\ last.op = "access"
    /\ firstEnviron[last.session] # None
    /\ log[1].environment = sessions[last.session].env[1]
    /\ log[1].environment # environ

\* C15: overlays are not shared: a setEnv call on one session (a
\* constructor's included) leaves the overlay of every other session, unset
\* or materialized, as it was, and no step changes two sessions at once.
C15_SetEnvLeavesOtherSessions ==
    [][/\ \A s \in SessionIds :
             (nSetEnv' # nSetEnv /\ last'.session # s) => sessions'[s] = sessions[s]
       /\ \A s, t \in SessionIds :
             s # t => (sessions'[s] = sessions[s] \/ sessions'[t] = sessions[t])]_vars

C15_Witness ==
    /\ last.op = "setEnv"
    /\ last.session = "s1"
    /\ sessions["s1"].env # None
    /\ sessions["s2"].kind # "none"
    /\ sessions["s2"].env # sessions["s1"].env

\* C16: the commit GitRef.getCommit returns carries, as its hash, the very
\* string GitRef.hash returns for that ref from the same process answer
\* (the trimmed show-ref output, whatever its shape or length), and its
\* session is the session of the ref.
C16_GetCommitCarriesRefHash ==
    last.op = "getCommit" =>
        /\ Len(log) = 1
        /\ log[1].command = <<"git", "show-ref", "-s", last.arg>>
        /\ last.result.exc.kind = "none"
        /\ last.result.ret = Captured(log[1])
        /\ last.result = hash(last.arg, log[1].env, log[1].beh)
        /\ last.key = last.session

C16_Witness ==
    /\ last.op = "getCommit"
    /\ last.session = "s2"
    /\ last.key = "s2"
    /\ last.result.ret = <<"D", " ", "\n", "x">>

\* C17: GitCommit.tag(name) issues the one command git tag name hash; when
\* that command fails (non-zero exit status) the call ends in
\* CommandFailed, and no operation ever ends in TaggingFailed.
C17_TagFailureIsCommandFailed ==
    /\ outcome.kind # "TaggingFailed"
    /\ last.result.exc.kind # "TaggingFailed"
    /\ last.op = "tag" =>
           /\ Len(log) = 1
           /\ log[1].command = <<"git", "tag", last.key, last.arg>>
           /\ log[1].beh.code # 0 => last.result.exc.kind = "CommandFailed"

\* C18: a call of Hooks.update that ends in RefDisallowed has started no
\* process: for refs/heads/master and for a ref outside refs/heads/ the log
\* of spawned processes stays empty from the call to its result, whatever
\* session it runs on.
C18_RejectedBeforeAnyCommand ==
    /\ outcome.kind = "RefDisallowed" => log = <<>>
    /\ (Evaluating /\ (IsPrimary(refName) \/ ~StartsWithRefsHeads(refName))) =>
           /\ log = <<>>
           /\ pc = "Decided" => outcome.kind = "RefDisallowed"

C18_Witness ==
    /\ pc = "Decided"
    /\ outcome.kind = "RefDisallowed"
    /\ IsPrimary(refName)
    /\ accessObject \in SessionIds
    /\ sessions[accessObject].env # None
    /\ log = <<>>

\* C19: for an allowed ref Hooks.update starts its processes one by one in
\* a fixed order: show-ref on the ref name; then, only when oldHash is not
\* the sentinel, show on newHash and then show on the hash show-ref gave.
\* A finished new-branch update has started exactly one process and a
\* finished existing-branch update exactly three.
C19_CommandsInOrder ==
    (Evaluating /\ AllowedRef(refName)) =>
        LET n == Len(log)
        IN  /\ n <= 3
            /\ n >= 1 => log[1].command = <<"git", "show-ref", "-s", refName>>
            /\ n >= 2 =>
                   /\ oldHash # FortyZeros
                   /\ log[2].command = <<"git", "show", "--pretty=format:%cn", newHash>>
            /\ n >= 3 =>
                   log[3].command =
                       <<"git", "show", "--pretty=format:%cn", Captured(log[1])>>
            /\ pc \in {"Start", "RefClassified"} => n = 0
            /\ pc = "HeadResolved" => n = 1
            /\ pc = "UpdateNamed" => n = 2
            /\ pc = "Decided" => n = IF oldHash = FortyZeros THEN 1 ELSE 3

C19_Witness ==
    /\ pc = "Decided"
    /\ AllowedRef(refName)
    /\ oldHash # FortyZeros
    /\ Len(log) = 3
    /\ log[3].command[4] = Captured(log[1])
    /\ log[3].command[4] # log[2].command[4]

\* tag has been called on session s (no other operation of the views sets
\* EDITOR)
Tagged(s) == "EDITOR" \in DOMAIN lastSet[s]

\* the session the processes of the log were started on
RunningSession == IF pc # "idle" THEN accessObject ELSE last.session

EditorEmptyAfterTag ==
    /\ \A s \in SessionIds :
           Tagged(s) => (sessions[s].env # None /\ sessions[s].env[1]["EDITOR"] = "")
    /\ last.op = "tag" =>
           /\ Tagged(last.session)
           /\ Len(log) = 1
           /\ log[1].env # None
           /\ log[1].environment["EDITOR"] = ""
    /\ \A i \in 1..Len(log) :
           (RunningSession \in SessionIds /\ Tagged(RunningSession)) =>
               /\ log[i].env = sessions[RunningSession].env
               /\ log[i].environment["EDITOR"] = ""

QueryOps == {"hash", "getCommit", "committerName", "pathExists", "isBranch", "isMaster"}

\* C20: GitCommit.tag sets EDITOR to the empty string in its session's
\* overlay before its command is started and does not put it back: once tag
\* was called on a session the overlay is materialized and every process
\* started through that session, by a commit view, a ref view or
\* Hooks.update, runs with EDITOR empty; the steps of Hooks.update and the
\* query operations leave every overlay and os.environ as they were.
C20_TagLeavesEditorEmpty ==
    /\ []EditorEmptyAfterTag
    /\ [][(pc # "idle" \/ pc' # "idle" \/ last'.op \in QueryOps) =>
              (sessions' = sessions /\ environ' = environ)]_vars

C20_Witness ==
    /\ pc = "HeadResolved"
    /\ accessObject = "s1"
    /\ Tagged("s1")
    /\ log[1].command[2] = "show-ref"
    /\ log[1].environment["EDITOR"] = ""
    /\ environ["EDITOR"] = "vi"

====
